---- MODULE Spec2Model ----
(***************************************************************************)
(* Model of the data_analyzer library: DataProcessor (src/processor.py)    *)
(* and DatasetScanner.scan_dataset (src/data_analyzer/scanner.py).         *)
(*                                                                         *)
(* Strings are sequences of symbols.  A symbol is a single character,      *)
(* except ".mp4" and ".txt", which stand for a whole file extension.       *)
(* A DataFrame is a record [is_none, rows]: is_none models the Python      *)
(* value None, rows is the sequence of row records in index order.         *)
(*                                                                         *)
(* Spec is the life of one DataProcessor: its construction from the scan   *)
(* results, then any sequence of calls of its three methods.  SpecScan is  *)
(* one run of scan_dataset, one step per archive.                          *)
(***************************************************************************)
EXTENDS Integers, Sequences, FiniteSets, TLC

VARIABLES
    worker_data,      \* DataProcessor.worker_data
    labels_data,      \* DataProcessor.labels_data
    available_files,  \* DataProcessor.available_files
    merged_df,        \* DataProcessor.merged_df
    filtered_df,      \* DataProcessor.filtered_df
    last_call,        \* the method of DataProcessor called last, with its arguments
    ret,              \* what that call returned
    raised,           \* an exception escaped a DataProcessor method
    root_mp4,         \* the paths root.rglob("*.mp4") yields
    zip_files,        \* scan_dataset: zip_files
    zf_index,         \* scan_dataset: archives of zip_files already processed
    video_files,      \* scan_dataset: video_files
    zip_contents,     \* scan_dataset: zip_contents
    scan_pc,          \* scan_dataset: position in the function
    scan_result       \* scan_dataset: the returned dictionary

vars == <<worker_data, labels_data, available_files, merged_df, filtered_df,
          last_call, ret, raised, root_mp4, zip_files, zf_index, video_files,
          zip_contents, scan_pc, scan_result>>

proc_vars == <<worker_data, labels_data, available_files, merged_df,
               filtered_df, last_call, ret, raised>>

scan_vars == <<root_mp4, zip_files, zf_index, video_files, zip_contents,
               scan_pc, scan_result>>

-----------------------------------------------------------------------------
(* Bounds *)

MaxWorkerRows == 2

MaxMinGood == 2

MaxArchives == 2

-----------------------------------------------------------------------------
(* String helpers *)

RECURSIVE SeqsUpTo(_, _)
SeqsUpTo(S, n) ==
    IF n = 0 THEN {<<>>}
    ELSE LET shorter == SeqsUpTo(S, n - 1)
         IN  shorter \cup {Append(s, x) : s \in shorter, x \in S}

\* str.startswith
startswith(l, prefix) ==
    /\ Len(prefix) <= Len(l)
    /\ SubSeq(l, 1, Len(prefix)) = prefix

\* str.endswith
endswith(l, suffix) ==
    /\ Len(suffix) <= Len(l)
    /\ SubSeq(l, Len(l) - Len(suffix) + 1, Len(l)) = suffix

\* k in l, for strings
contains(l, k) ==
    \E i \in 0..(Len(l) - Len(k)) : SubSeq(l, i + 1, i + Len(k)) = k

\* str.rfind("/") + 1: the index after the last slash, 0 when there is none
RECURSIVE rfind_slash(_, _)
rfind_slash(p, i) ==
    IF i = 0 THEN 0
    ELSE IF p[i] = "/" THEN i
    ELSE rfind_slash(p, i - 1)

basename_identity(p) == p

\* os.path.basename
basename(p) == SubSeq(p, rfind_slash(p, Len(p)) + 1, Len(p))

-----------------------------------------------------------------------------
(* Input domains of DataProcessor *)

PathA == <<"d", "/", "a">>
PathB == <<"b">>
PathC == <<"c", "/", "b">>

WorkerPaths == {PathA, PathB}

WorkerIds == {1, 2}

List(items) == [is_list |-> TRUE, items |-> items]

\* a labels cell that is not a list (NaN for a record without labels, a bare
\* string); the entries of a cell that is a list are strings
NotAList == [is_list |-> FALSE, items |-> <<>>]

LabelsDeep == List(<< <<"s", "d">> >>)
LabelsFast == List(<< <<"s", "f">> >>)
LabelsBoth == List(<< <<"d">>, <<"s", "d", "f">> >>)
LabelsPlain == List(<< <<"s">> >>)
LabelsOther == List(<< <<"x", "s">> >>)

LabelValues ==
    {LabelsDeep, LabelsFast, LabelsBoth, LabelsPlain, LabelsOther, NotAList}

WorkerRecord(p, w) == [video_path |-> p, worker_id |-> w]

LabelRecord(p, l) == [video_path |-> p, labels |-> l]

WorkerRecords == {WorkerRecord(p, w) : p \in WorkerPaths, w \in WorkerIds}

WorkerInputs == SeqsUpTo(WorkerRecords, MaxWorkerRows)

LabelInputs ==
    { <<>>,
      << LabelRecord(PathA, LabelsBoth), LabelRecord(PathA, LabelsFast) >>,
      << LabelRecord(PathB, NotAList), LabelRecord(PathA, LabelsPlain),
         LabelRecord(PathA, LabelsDeep) >>,
      << LabelRecord(PathC, LabelsFast), LabelRecord(PathA, LabelsOther),
         LabelRecord(PathB, LabelsDeep) >>,
      << LabelRecord(PathA, LabelsFast), LabelRecord(PathB, LabelsDeep),
         LabelRecord(PathB, LabelsBoth) >>,
      << LabelRecord(PathB, LabelsDeep), LabelRecord(PathA, LabelsPlain),
         LabelRecord(PathB, LabelsFast) >> }

\* the scanner's set of file names, matched exactly: "B" is not "b"
AvailableFileSets == { {<<"a">>, <<"B">>} }

Prefixes == { <<"s">>, <<"s", "d">> }

GoodKeywordLists == { <<>>, << <<"d">> >> }

BadKeywordLists == { << <<"f">> >>, << <<"x">>, <<"d", "f">> >> }

MinBadValues == {0, 1}

NoneDF == [is_none |-> TRUE, rows |-> <<>>]

DataFrame(rows) == [is_none |-> FALSE, rows |-> rows]

NoCall == [op |-> "none"]

NoneValue == [is_none |-> TRUE, list |-> <<>>]

Returned(list) == [is_none |-> FALSE, list |-> list]

-----------------------------------------------------------------------------
(* DataProcessor *)

RECURSIVE Flatten(_)
Flatten(ss) ==
    IF ss = <<>> THEN <<>> ELSE Head(ss) \o Flatten(Tail(ss))

JoinedRow(w, l) ==
    [video_path |-> w.video_path, worker_id |-> w.worker_id, labels |-> l.labels]

MatchesOf(w, right) ==
    LET hits == SelectSeq(right, LAMBDA l : l.video_path = w.video_path)
    IN  [j \in 1..Len(hits) |-> JoinedRow(w, hits[j])]

merge_first_match(left, right) ==
    Flatten([i \in 1..Len(left) |->
        LET m == MatchesOf(left[i], right)
        IN  IF m = <<>> THEN <<>> ELSE <<m[1]>>])

\* pd.merge(worker_df, labels_df, on='video_path', how='inner'): every pair of
\* a left and a right row with equal keys, in the order of the left rows
merge_inner(left, right) ==
    Flatten([i \in 1..Len(left) |-> MatchesOf(left[i], right)])

_create_initial_df(wd, ld) ==
    IF wd = <<>> \/ ld = <<>>
    THEN DataFrame(<<>>)
    ELSE DataFrame(merge_inner(wd, ld))

has_prefix_unchecked(label_list, prefix) ==
    IF ~label_list.is_list
    THEN [raised |-> TRUE, value |-> FALSE]
    ELSE [raised |-> FALSE,
          value |-> \E i \in 1..Len(label_list.items) :
                        startswith(label_list.items[i], prefix)]

\* has_prefix, the closure of filter_by_label_prefix; raised tells whether
\* evaluating it raises
has_prefix(label_list, prefix) ==
    IF ~label_list.is_list
    THEN [raised |-> FALSE, value |-> FALSE]
    ELSE [raised |-> FALSE,
          value |-> \E i \in 1..Len(label_list.items) :
                        startswith(label_list.items[i], prefix)]

prefix_filter_source_chained(m, f) == IF f.is_none THEN m ELSE f

\* the frame filter_by_label_prefix selects from: self.merged_df
prefix_filter_source(m, f) == m

\* the frame filter_by_label_prefix leaves in self.filtered_df
filter_by_label_prefix_df(m, f, prefix) ==
    IF m.is_none \/ m.rows = <<>>
    THEN DataFrame(<<>>)
    ELSE DataFrame(SelectSeq(prefix_filter_source(m, f).rows,
                             LAMBDA r : has_prefix(r.labels, prefix).value))

filter_by_label_prefix_raises(m, f, prefix) ==
    /\ ~(m.is_none \/ m.rows = <<>>)
    /\ \E i \in 1..Len(prefix_filter_source(m, f).rows) :
           has_prefix(prefix_filter_source(m, f).rows[i].labels, prefix).raised

WithExistence(r, files) ==
    [video_path |-> r.video_path, worker_id |-> r.worker_id, labels |-> r.labels,
     filename |-> basename(r.video_path),
     exists |-> basename(r.video_path) \in files]

\* the frame filter_available_files leaves in self.filtered_df
filter_available_files_df(f, files) ==
    IF f.is_none \/ f.rows = <<>>
    THEN f
    ELSE DataFrame(SelectSeq([i \in 1..Len(f.rows) |-> WithExistence(f.rows[i], files)],
                             LAMBDA r : r.exists))

\* has_label_match, the closure of find_eligible_subjects
has_label_match(labels, keywords) ==
    IF keywords = <<>> THEN FALSE
    ELSE \E i \in 1..Len(labels.items) : \E k \in 1..Len(keywords) :
             contains(labels.items[i], keywords[k])

good_videos_lenient(group, good_keywords, bad_keywords, strict_good) ==
    SelectSeq(group, LAMBDA r : has_label_match(r.labels, good_keywords))

good_videos(group, good_keywords, bad_keywords, strict_good) ==
    IF strict_good
    THEN SelectSeq(group, LAMBDA r : /\ has_label_match(r.labels, good_keywords)
                                     /\ ~has_label_match(r.labels, bad_keywords))
    ELSE SelectSeq(group, LAMBDA r : has_label_match(r.labels, good_keywords))

bad_videos(group, bad_keywords) ==
    SelectSeq(group, LAMBDA r : has_label_match(r.labels, bad_keywords))

is_eligible_either(n_good, n_bad, min_good, min_bad) ==
    n_good >= min_good \/ n_bad >= min_bad

is_eligible(n_good, n_bad, min_good, min_bad) ==
    n_good >= min_good /\ n_bad >= min_bad

VideoPaths(rows) == [i \in 1..Len(rows) |-> rows[i].video_path]

\* the keys of filtered_df.groupby('worker_id'), in iteration order
RECURSIVE SortedKeys(_)
SortedKeys(S) ==
    IF S = {} THEN <<>>
    ELSE LET m == CHOOSE x \in S : \A y \in S : x <= y
         IN  <<m>> \o SortedKeys(S \ {m})

grouped(rows) == SortedKeys({rows[i].worker_id : i \in 1..Len(rows)})

Summary(worker_id, group, args) ==
    LET good == good_videos(group, args.good_keywords, args.bad_keywords,
                            args.strict_good)
        bad == bad_videos(group, args.bad_keywords)
    IN  [worker_id |-> worker_id,
         good_count |-> Len(good),
         bad_count |-> Len(bad),
         total_videos |-> Len(group),
         good_samples |-> VideoPaths(good),
         bad_samples |-> VideoPaths(bad)]

\* the loop of find_eligible_subjects over the groups
RECURSIVE eligible_subjects(_, _, _)
eligible_subjects(keys, rows, args) ==
    IF keys = <<>> THEN <<>>
    ELSE LET s == Summary(Head(keys),
                          SelectSeq(rows, LAMBDA r : r.worker_id = Head(keys)),
                          args)
             rest == eligible_subjects(Tail(keys), rows, args)
         IN  IF is_eligible(s.good_count, s.bad_count, args.min_good, args.min_bad)
             THEN <<s>> \o rest
             ELSE rest

\* insert x behind every element whose key is not smaller: list.sort is stable
RECURSIVE insert_desc(_, _)
insert_desc(sorted, x) ==
    IF sorted = <<>> THEN <<x>>
    ELSE IF Head(sorted).total_videos >= x.total_videos
         THEN <<Head(sorted)>> \o insert_desc(Tail(sorted), x)
         ELSE <<x>> \o sorted

RECURSIVE sort_from(_, _)
sort_from(sorted, rest) ==
    IF rest = <<>> THEN sorted
    ELSE sort_from(insert_desc(sorted, Head(rest)), Tail(rest))

Reverse(s) == [i \in 1..Len(s) |-> s[Len(s) + 1 - i]]

RECURSIVE insert_asc(_, _)
insert_asc(sorted, x) ==
    IF sorted = <<>> THEN <<x>>
    ELSE IF Head(sorted).total_videos <= x.total_videos
         THEN <<Head(sorted)>> \o insert_asc(Tail(sorted), x)
         ELSE <<x>> \o sorted

RECURSIVE sort_asc_from(_, _)
sort_asc_from(sorted, rest) ==
    IF rest = <<>> THEN sorted
    ELSE sort_asc_from(insert_asc(sorted, Head(rest)), Tail(rest))

sort_ascending_then_reversed(subjects) == Reverse(sort_asc_from(<<>>, subjects))

\* eligible_subjects.sort(key=lambda x: x['total_videos'], reverse=True)
sort_by_total_videos(subjects) == sort_from(<<>>, subjects)

\* the list find_eligible_subjects returns
find_eligible_subjects_list(f, args) ==
    IF f.is_none \/ f.rows = <<>>
    THEN <<>>
    ELSE sort_by_total_videos(eligible_subjects(grouped(f.rows), f.rows, args))

FindArgs ==
    [good_keywords : GoodKeywordLists, bad_keywords : BadKeywordLists,
     min_good : 0..MaxMinGood, min_bad : MinBadValues, strict_good : BOOLEAN]

ScanIdle ==
    /\ root_mp4 = {}
    /\ zip_files = <<>>
    /\ zf_index = 0
    /\ video_files = {}
    /\ zip_contents = {}
    /\ scan_pc = "idle"
    /\ scan_result = [returned |-> FALSE]

\* the scan results handed to DataProcessor(scan_results), before __init__ runs
Init ==
    /\ worker_data \in WorkerInputs
    /\ labels_data \in LabelInputs
    /\ available_files \in AvailableFileSets
    /\ merged_df = NoneDF
    /\ filtered_df = NoneDF
    /\ last_call = NoCall
    /\ ret = NoneValue
    /\ raised = FALSE
    /\ ScanIdle

__init__ ==
    /\ merged_df.is_none
    /\ ~raised
    /\ merged_df' = _create_initial_df(worker_data, labels_data)
    /\ last_call' = [op |-> "__init__"]
    /\ UNCHANGED <<worker_data, labels_data, available_files, filtered_df, ret,
                   raised, scan_vars>>

filter_by_label_prefix ==
    /\ ~merged_df.is_none
    /\ ~raised
    /\ \E prefix \in Prefixes :
        /\ last_call' = [op |-> "filter_by_label_prefix", prefix |-> prefix]
        /\ IF filter_by_label_prefix_raises(merged_df, filtered_df, prefix)
           THEN raised' = TRUE /\ UNCHANGED filtered_df
           ELSE /\ filtered_df' = filter_by_label_prefix_df(merged_df, filtered_df, prefix)
                /\ UNCHANGED raised
    /\ ret' = NoneValue
    /\ UNCHANGED <<worker_data, labels_data, available_files, merged_df, scan_vars>>

filter_available_files ==
    /\ ~merged_df.is_none
    /\ ~raised
    /\ filtered_df' = filter_available_files_df(filtered_df, available_files)
    /\ last_call' = [op |-> "filter_available_files"]
    /\ ret' = NoneValue
    /\ UNCHANGED <<worker_data, labels_data, available_files, merged_df, raised,
                   scan_vars>>

find_eligible_subjects ==
    /\ ~merged_df.is_none
    /\ ~raised
    /\ \E args \in FindArgs :
        /\ last_call' = [op |-> "find_eligible_subjects", args |-> args]
        /\ ret' = Returned(find_eligible_subjects_list(filtered_df, args))
    /\ UNCHANGED <<worker_data, labels_data, available_files, merged_df,
                   filtered_df, raised, scan_vars>>

Next ==
    \/ __init__
    \/ filter_by_label_prefix
    \/ filter_available_files
    \/ find_eligible_subjects

Spec == Init /\ [][Next]_vars

-----------------------------------------------------------------------------
(* Input domains of DatasetScanner *)

Mp4 == <<".mp4">>

LoosePaths ==
    { <<"a", ".mp4">>, <<"d", "/", "a", ".mp4">>, <<"d", "/", "b", ".mp4">> }

\* A zip archive found by root.rglob("*.zip").
\*   reader     what zipfile.ZipFile(...) / namelist() does: "ok" or the
\*              exception it raises
\*   namelist   the entry names of the archive
\*   sevenz     subprocess.run(["7z", "l", ...]): "ran", or "unavailable"
\*              when starting the executable raises
\*   returncode result.returncode
\*   stdout     result.stdout.splitlines(), every line split at whitespace
Archive(name, reader, namelist, sevenz, returncode, stdout) ==
    [name |-> name, reader |-> reader, namelist |-> namelist, sevenz |-> sevenz,
     returncode |-> returncode, stdout |-> stdout]

ListingLines ==
    << << <<"N", "a", "m", "e">> >>,
       << <<"x">>, <<"v", "/", "c", ".mp4">> >>,
       << <<"x">>, <<"a", ".mp4">>, <<"b", "a", "k">> >>,
       << <<"x">>, <<"m", "y">>, <<"e", ".mp4">> >> >>

Archives ==
    { Archive("one.zip", "ok",
              << <<"v", "/", "a", ".mp4">>, <<"c", ".mp4">>, <<"r", ".txt">> >>,
              "ran", 0, <<>>),
      Archive("two.zip", "ok",
              << <<"b", ".mp4", ".txt">>, <<"v", "/">>, <<"v", "/", "f", ".mp4">> >>,
              "ran", 0, <<>>),
      Archive("deflate64.zip", "NotImplementedError",
              << <<"v", "/", "c", ".mp4">>, <<"m", "y", " ", "e", ".mp4">> >>,
              "ran", 0, ListingLines),
      Archive("split.zip", "BadZipFile",
              << <<"g", ".mp4">> >>,
              "ran", 2, << << <<"x">>, <<"g", ".mp4">> >> >>),
      Archive("broken.zip", "BadZipFile",
              << <<"h", ".mp4">> >>,
              "unavailable", 0, << << <<"x">>, <<"h", ".mp4">> >> >>),
      Archive("locked.zip", "PermissionError",
              << <<"k", ".mp4">> >>,
              "ran", 0, << << <<"x">>, <<"k", ".mp4">> >> >>) }

-----------------------------------------------------------------------------
(* DatasetScanner.scan_dataset *)

\* Path.name of a path the filesystem walk yields
name(f) == basename(f)

\* [os.path.basename(n) for n in names if n.endswith('.mp4')]
mp4s(names) ==
    LET kept == SelectSeq(names, LAMBDA n : endswith(n, Mp4))
    IN  [i \in 1..Len(kept) |-> basename(kept[i])]

\* ".mp4" in line
mp4_in_line(line) ==
    \E t \in 1..Len(line) : contains(line[t], Mp4)

\* the names the 7z branch adds to video_files, in the order of the lines
names_7z(stdout) ==
    LET hits == SelectSeq(stdout, LAMBDA line :
                    /\ mp4_in_line(line)
                    /\ endswith(line[Len(line)], Mp4))
    IN  [i \in 1..Len(hits) |-> basename(hits[i][Len(hits[i])])]

Range(s) == {s[i] : i \in 1..Len(s)}

standard_reader_fails(zf) == zf.reader \in {"BadZipFile", "NotImplementedError"}

listing_usable_any_code(zf) == zf.sevenz = "ran"

\* the 7z listing is parsed: the subprocess ran and result.returncode == 0
listing_usable(zf) == zf.sevenz = "ran" /\ zf.returncode = 0

SetContents(contents, key, count) ==
    {e \in contents : e.name # key} \cup {[name |-> key, count |-> count]}

RECURSIVE SumCounts(_)
SumCounts(contents) ==
    IF contents = {} THEN 0
    ELSE LET e == CHOOSE x \in contents : TRUE
         IN  e.count + SumCounts(contents \ {e})

total_videos_summed(files, root, contents) ==
    Cardinality(root) + SumCounts(contents)

\* total_videos = len(video_files)
total_videos(files, root, contents) == Cardinality(files)

ProcessorIdle ==
    /\ worker_data = <<>>
    /\ labels_data = <<>>
    /\ available_files = {}
    /\ merged_df = NoneDF
    /\ filtered_df = NoneDF
    /\ last_call = NoCall
    /\ ret = NoneValue
    /\ raised = FALSE

InitScan ==
    /\ root_mp4 \in SUBSET LoosePaths
    /\ zip_files \in SeqsUpTo(Archives, MaxArchives)
    /\ zf_index = 0
    /\ video_files = {}
    /\ zip_contents = {}
    /\ scan_pc = "walk"
    /\ scan_result = [returned |-> FALSE]
    /\ ProcessorIdle

\* lines 24-35: the walk over the loose files, then the list of archives
ScanFilesystem ==
    /\ scan_pc = "walk"
    /\ video_files' = {name(f) : f \in root_mp4}
    /\ scan_pc' = "archives"
    /\ UNCHANGED <<root_mp4, zip_files, zf_index, zip_contents, scan_result,
                   proc_vars>>

NextArchive == zip_files[zf_index + 1]

InLoop == scan_pc = "archives" /\ zf_index < Len(zip_files)

\* lines 40-44: the standard reader lists the archive
ReadZipStandard ==
    /\ InLoop
    /\ NextArchive.reader = "ok"
    /\ LET found == mp4s(NextArchive.namelist)
       IN  /\ zip_contents' = SetContents(zip_contents, NextArchive.name, Len(found))
           /\ video_files' = video_files \cup Range(found)
    /\ zf_index' = zf_index + 1
    /\ UNCHANGED <<root_mp4, zip_files, scan_pc, scan_result, proc_vars>>

\* lines 45-62: the standard reader fails, the 7z listing is parsed
Fallback7zListing ==
    /\ InLoop
    /\ standard_reader_fails(NextArchive)
    /\ listing_usable(NextArchive)
    /\ LET found == names_7z(NextArchive.stdout)
       IN  /\ zip_contents' = SetContents(zip_contents, NextArchive.name, Len(found))
           /\ video_files' = video_files \cup Range(found)
    /\ zf_index' = zf_index + 1
    /\ UNCHANGED <<root_mp4, zip_files, scan_pc, scan_result, proc_vars>>

\* lines 63-66: 7z exits non-zero, or cannot be started
Fallback7zFailed ==
    /\ InLoop
    /\ standard_reader_fails(NextArchive)
    /\ ~listing_usable(NextArchive)
    /\ zf_index' = zf_index + 1
    /\ UNCHANGED <<root_mp4, zip_files, video_files, zip_contents, scan_pc,
                   scan_result, proc_vars>>

\* lines 67-68: any other exception of the standard reader
ReadZipOtherError ==
    /\ InLoop
    /\ NextArchive.reader # "ok"
    /\ ~standard_reader_fails(NextArchive)
    /\ zf_index' = zf_index + 1
    /\ UNCHANGED <<root_mp4, zip_files, video_files, zip_contents, scan_pc,
                   scan_result, proc_vars>>

\* lines 70-96: the returned dictionary; its labels entry is left out
ReturnScan ==
    /\ scan_pc = "archives"
    /\ zf_index = Len(zip_files)
    /\ scan_result' = [returned |-> TRUE,
                       total_videos |-> total_videos(video_files, root_mp4, zip_contents),
                       unpacked_videos |-> Cardinality(root_mp4),
                       zip_archives |-> Len(zip_files),
                       video_files |-> video_files]
    /\ scan_pc' = "done"
    /\ UNCHANGED <<root_mp4, zip_files, zf_index, video_files, zip_contents,
                   proc_vars>>

NextScan ==
    \/ ScanFilesystem
    \/ ReadZipStandard
    \/ Fallback7zListing
    \/ Fallback7zFailed
    \/ ReadZipOtherError
    \/ ReturnScan

SpecScan == InitScan /\ [][NextScan]_vars

-----------------------------------------------------------------------------
(* Vocabulary of the properties *)

Count(seq, x) == Cardinality({i \in 1..Len(seq) : seq[i] = x})

KeyCount(seq, p) == Cardinality({i \in 1..Len(seq) : seq[i].video_path = p})

AllPaths == {PathA, PathB, PathC}

NoSourceData == worker_data = <<>> \/ labels_data = <<>>

AfterCall(op) == last_call.op = op

\* b is the part of p behind its last slash
IsBasenameOf(b, p) ==
    \E k \in 0..Len(p) :
        /\ b = SubSeq(p, k + 1, Len(p))
        /\ \A i \in 1..Len(b) : b[i] # "/"
        /\ k = 0 \/ p[k] = "/"

\* k occurs in l as a run of consecutive symbols
IsSubstring(k, l) ==
    \E i \in 1..(Len(l) + 1) : \E j \in (i - 1)..Len(l) : SubSeq(l, i, j) = k

\* some entry of the labels list contains some keyword
KeywordMatch(labels, keywords) ==
    \E i \in 1..Len(labels.items) : \E k \in 1..Len(keywords) :
        IsSubstring(keywords[k], labels.items[i])

\* some entry of the labels cell begins with the prefix
BeginsWith(labels, prefix) ==
    /\ labels.is_list
    /\ \E i \in 1..Len(labels.items) :
           /\ Len(labels.items[i]) >= Len(prefix)
           /\ \A k \in 1..Len(prefix) : labels.items[i][k] = prefix[k]

Group(w) == SelectSeq(filtered_df.rows, LAMBDA r : r.worker_id = w)

InAvailableFiles(r) == \E b \in available_files : IsBasenameOf(b, r.video_path)

Project(rows) ==
    [i \in 1..Len(rows) |->
        [video_path |-> rows[i].video_path, worker_id |-> rows[i].worker_id,
         labels |-> rows[i].labels]]

-----------------------------------------------------------------------------
(* C1 *)

\* C1: for non-empty worker_data and labels_data, merged_df is the inner join
\* on video_path: every joined row pairs a worker row and a label row with the
\* same video_path, each such pair occurs as often as the product of the
\* multiplicities of its two rows, so a video_path occurring m times in
\* worker_data and n times in labels_data has m*n joined rows and a video_path
\* missing from either side has none.
C1_InnerJoinCrossProduct ==
    (~merged_df.is_none /\ ~NoSourceData) =>
        /\ \A p \in AllPaths :
               KeyCount(merged_df.rows, p)
                   = KeyCount(worker_data, p) * KeyCount(labels_data, p)
        /\ \A i \in 1..Len(worker_data) : \A j \in 1..Len(labels_data) :
               Count(merged_df.rows, JoinedRow(worker_data[i], labels_data[j]))
                   = IF worker_data[i].video_path = labels_data[j].video_path
                     THEN Count(worker_data, worker_data[i])
                              * Count(labels_data, labels_data[j])
                     ELSE 0
        /\ \A r \in 1..Len(merged_df.rows) :
               \E i \in 1..Len(worker_data) : \E j \in 1..Len(labels_data) :
                   /\ worker_data[i].video_path = labels_data[j].video_path
                   /\ merged_df.rows[r] = JoinedRow(worker_data[i], labels_data[j])

\* a key held twice on both sides gives four joined rows, next to a key that
\* only one side holds
C1_Witness ==
    /\ ~merged_df.is_none
    /\ \E p \in AllPaths :
           /\ KeyCount(worker_data, p) = 2
           /\ KeyCount(labels_data, p) = 2
           /\ KeyCount(merged_df.rows, p) = 4
    /\ \E q \in AllPaths :
           /\ KeyCount(worker_data, q) = 0
           /\ KeyCount(labels_data, q) > 0
           /\ KeyCount(merged_df.rows, q) = 0

-----------------------------------------------------------------------------
(* C2 *)

\* the result of the whole pipeline on a fresh DataProcessor
PipelineFiltered(wd, ld, files, prefix) ==
    filter_available_files_df(
        filter_by_label_prefix_df(_create_initial_df(wd, ld), NoneDF, prefix),
        files)

\* C2: when worker_data or labels_data is empty, what the pipeline hands to the
\* caller (filtered_df and the list find_eligible_subjects returns) differs
\* from what it hands over in every run on non-empty metadata, so also from
\* the runs in which no worker is eligible.
C2_NoSourceDataDistinguishable ==
    (AfterCall("find_eligible_subjects") /\ NoSourceData /\ ~filtered_df.is_none) =>
        \A wd \in WorkerInputs \ {<<>>} : \A ld \in LabelInputs \ {<<>>} :
            \A prefix \in Prefixes :
                LET f == PipelineFiltered(wd, ld, available_files, prefix)
                IN  <<f, Returned(find_eligible_subjects_list(f, last_call.args))>>
                        # <<filtered_df, ret>>

-----------------------------------------------------------------------------
(* C3 *)

\* C3: in every summary find_eligible_subjects returns, bad_samples are the
\* video_paths of the records of the worker's group that match a bad keyword;
\* good_samples are, with strict_good, those of the records that match a good
\* keyword and no bad keyword, and without strict_good those of all records
\* that match a good keyword; good_count and bad_count are their numbers.
C3_StrictGoodExcludesBad ==
    AfterCall("find_eligible_subjects") =>
        \A n \in 1..Len(ret.list) :
            LET s == ret.list[n]
                a == last_call.args
                g == Group(s.worker_id)
                good == SelectSeq(g, LAMBDA r :
                            /\ KeywordMatch(r.labels, a.good_keywords)
                            /\ a.strict_good => ~KeywordMatch(r.labels, a.bad_keywords))
                bad == SelectSeq(g, LAMBDA r : KeywordMatch(r.labels, a.bad_keywords))
            IN  /\ s.good_samples = VideoPaths(good)
                /\ s.bad_samples = VideoPaths(bad)
                /\ s.good_count = Len(good)
                /\ s.bad_count = Len(bad)

\* a strict call returned a worker with a record that matches both keyword
\* lists: the record is counted as bad and not as good
C3_Witness ==
    /\ AfterCall("find_eligible_subjects")
    /\ last_call.args.strict_good
    /\ \E n \in 1..Len(ret.list) :
           LET g == Group(ret.list[n].worker_id)
               both == SelectSeq(g, LAMBDA r :
                           /\ KeywordMatch(r.labels, last_call.args.good_keywords)
                           /\ KeywordMatch(r.labels, last_call.args.bad_keywords))
               anyGood == SelectSeq(g, LAMBDA r :
                           KeywordMatch(r.labels, last_call.args.good_keywords))
           IN  /\ both # <<>>
               /\ ret.list[n].good_count = Len(anyGood) - Len(both)
               /\ ret.list[n].good_count > 0
               /\ ret.list[n].bad_count >= Len(both)

-----------------------------------------------------------------------------
(* C4 *)

GoodCount(w, a) ==
    Len(SelectSeq(Group(w), LAMBDA r :
            /\ KeywordMatch(r.labels, a.good_keywords)
            /\ a.strict_good => ~KeywordMatch(r.labels, a.bad_keywords)))

BadCount(w, a) ==
    Len(SelectSeq(Group(w), LAMBDA r : KeywordMatch(r.labels, a.bad_keywords)))

\* C4: find_eligible_subjects returns a summary for a worker_id exactly when
\* the worker has a group in filtered_df with good_count >= min_good and
\* bad_count >= min_bad; a summary's total_videos is the size of the whole
\* group, its counts are the lengths of its sample lists, and no worker_id is
\* returned twice.
C4_EligibleIffThresholds ==
    AfterCall("find_eligible_subjects") =>
        /\ \A w \in WorkerIds :
               (\E n \in 1..Len(ret.list) : ret.list[n].worker_id = w)
                   <=> /\ Group(w) # <<>>
                       /\ GoodCount(w, last_call.args) >= last_call.args.min_good
                       /\ BadCount(w, last_call.args) >= last_call.args.min_bad
        /\ \A n \in 1..Len(ret.list) :
               /\ ret.list[n].worker_id \in WorkerIds
               /\ ret.list[n].total_videos = Len(Group(ret.list[n].worker_id))
               /\ ret.list[n].good_count = Len(ret.list[n].good_samples)
               /\ ret.list[n].bad_count = Len(ret.list[n].bad_samples)
        /\ \A n, m \in 1..Len(ret.list) :
               ret.list[n].worker_id = ret.list[m].worker_id => n = m

\* two workers have a group, one meets both thresholds and is returned, the
\* other is not, and the one returned has more videos than good ones
C4_Witness ==
    /\ AfterCall("find_eligible_subjects")
    /\ \A w \in WorkerIds : Group(w) # <<>>
    /\ Len(ret.list) = 1
    /\ last_call.args.min_good >= 1
    /\ last_call.args.min_bad >= 1
    /\ ret.list[1].good_count >= last_call.args.min_good
    /\ ret.list[1].total_videos > ret.list[1].good_count

-----------------------------------------------------------------------------
(* C5 *)

-----------------------------------------------------------------------------
(* C6 *)

C6_Step ==
    (last_call'.op = "filter_available_files" /\ ~filtered_df.is_none) =>
        /\ Project(filtered_df'.rows)
               = Project(SelectSeq(filtered_df.rows, InAvailableFiles))
        /\ \A i \in 1..Len(filtered_df'.rows) :
               /\ filtered_df'.rows[i].exists = TRUE
               /\ IsBasenameOf(filtered_df'.rows[i].filename,
                               filtered_df'.rows[i].video_path)
               /\ filtered_df'.rows[i].filename \in available_files
        /\ filter_available_files_df(filtered_df', available_files) = filtered_df'
        /\ last_call.op = "filter_available_files" => filtered_df' = filtered_df

\* C6: a call of filter_available_files keeps exactly the records of
\* filtered_df whose video_path has its basename in available_files, every
\* record it keeps has exists = TRUE, and a second call on its output changes
\* nothing.
C6_ExistenceFilterIdempotent == [][C6_Step]_vars

\* filter_available_files dropped a record of the prefix-filtered collection
\* and kept another
C6_Witness ==
    /\ AfterCall("filter_available_files")
    /\ filtered_df.rows # <<>>
    /\ \A i \in 1..Len(filtered_df.rows) : filtered_df.rows[i].exists = TRUE
    /\ \E prefix \in Prefixes :
           LET before == SelectSeq(merged_df.rows,
                                   LAMBDA r : BeginsWith(r.labels, prefix))
           IN  /\ Project(filtered_df.rows) = SelectSeq(before, InAvailableFiles)
               /\ Len(filtered_df.rows) < Len(before)

-----------------------------------------------------------------------------
(* C9 *)

\* C9: the returned list is ordered by total_videos descending, and workers
\* with equal total_videos keep the order of the group iteration, which is
\* ascending worker_id.
C9_SortedByTotalStable ==
    AfterCall("find_eligible_subjects") =>
        \A n, m \in 1..Len(ret.list) :
            n < m =>
                \/ ret.list[n].total_videos > ret.list[m].total_videos
                \/ /\ ret.list[n].total_videos = ret.list[m].total_videos
                   /\ ret.list[n].worker_id < ret.list[m].worker_id

\* the worker iterated second has more videos and is returned first
C9_Witness ==
    /\ AfterCall("find_eligible_subjects")
    /\ Len(ret.list) = 2
    /\ ret.list[1].worker_id > ret.list[2].worker_id
    /\ ret.list[1].total_videos > ret.list[2].total_videos

-----------------------------------------------------------------------------
(* C10 *)

C10_Step ==
    /\ ~merged_df.is_none => merged_df' = merged_df
    /\ (last_call'.op = "filter_by_label_prefix" /\ ~raised') =>
           filtered_df' =
               DataFrame(SelectSeq(merged_df.rows,
                                   LAMBDA r : BeginsWith(r.labels, last_call'.prefix)))
    /\ (last_call'.op = "filter_available_files" /\ filtered_df.is_none) =>
           filtered_df' = filtered_df
    /\ last_call'.op = "find_eligible_subjects" => filtered_df' = filtered_df

\* C10: no call changes merged_df once it is built; filter_by_label_prefix
\* leaves in filtered_df what merged_df and prefix alone determine, whatever
\* filtered_df held before; filter_available_files on an unset filtered_df
\* leaves it unset.
C10_MergedNeverChanged == [][C10_Step]_vars

\* filter_available_files was called before any filter_by_label_prefix, on a
\* processor with joined records, and filtered_df is still unset
C10_Witness ==
    /\ AfterCall("filter_available_files")
    /\ merged_df.rows # <<>>
    /\ filtered_df.is_none

-----------------------------------------------------------------------------
(* C7, C8 *)

\* both readers fail for the archive, or reading it raises another exception
FailsToRead(zf) ==
    \/ /\ zf.reader \in {"BadZipFile", "NotImplementedError"}
       /\ zf.sevenz = "unavailable" \/ zf.returncode # 0
    \/ zf.reader \notin {"ok", "BadZipFile", "NotImplementedError"}

\* the part of p behind its last slash, as a set of one name
NameOf(p) == {b \in {SubSeq(p, k + 1, Len(p)) : k \in 0..Len(p)} : IsBasenameOf(b, p)}

\* the basenames a readable archive lists: the entry names ending in .mp4 for
\* the standard reader, the last word of a listing line for 7z
Listed(zf) ==
    IF FailsToRead(zf) THEN {}
    ELSE IF zf.reader = "ok"
    THEN UNION {NameOf(zf.namelist[i]) :
                   i \in {j \in 1..Len(zf.namelist) :
                             zf.namelist[j][Len(zf.namelist[j])] = ".mp4"}}
    ELSE UNION {NameOf(zf.stdout[i][Len(zf.stdout[i])]) :
                   i \in {j \in 1..Len(zf.stdout) :
                             LET last == zf.stdout[j][Len(zf.stdout[j])]
                             IN  last[Len(last)] = ".mp4"}}

LooseNames == UNION {NameOf(f) : f \in root_mp4}

C7_Step ==
    (zf_index' = zf_index + 1 /\ FailsToRead(zip_files[zf_index + 1])) =>
        /\ video_files' = video_files
        /\ scan_pc' = "archives"

C7_State ==
    /\ scan_pc = "done" =>
           /\ scan_result.returned
           /\ zf_index = Len(zip_files)
           /\ scan_result.zip_archives = Len(zip_files)
    /\ scan_pc # "done" => ENABLED NextScan

\* C7: the step over an archive that both readers fail on, or whose reading
\* raises another exception, leaves video_files as it was and stays in the
\* loop; the scan can always go on until it returns, it returns only after
\* the last archive, and zip_archives counts every archive.
C7_FailedArchiveAddsNothing == []C7_State /\ [][C7_Step]_vars

\* the scan returned although its first archive failed, and the names of a
\* later readable archive are in the result
C7_Witness ==
    /\ scan_pc = "done"
    /\ Len(zip_files) = 2
    /\ FailsToRead(zip_files[1])
    /\ Listed(zip_files[2]) # {}
    /\ Listed(zip_files[2]) \subseteq scan_result.video_files
    /\ scan_result.zip_archives = 2

\* C8: total_videos is the size of the union of the loose-file basenames and
\* the basenames listed from every readable archive, which is the returned
\* video_files set; with no loose file and no archive it is 0 and the set is
\* empty.
C8_TotalIsUnionSize ==
    scan_pc = "done" =>
        LET union == LooseNames
                        \cup UNION {Listed(zip_files[i]) : i \in 1..Len(zip_files)}
        IN  /\ scan_result.video_files = union
            /\ scan_result.total_videos = Cardinality(union)
            /\ (root_mp4 = {} /\ zip_files = <<>>) =>
                   /\ scan_result.total_videos = 0
                   /\ scan_result.video_files = {}

\* a name found loose and in a readable archive is counted once
C8_Witness ==
    /\ scan_pc = "done"
    /\ \E i \in 1..Len(zip_files) : LooseNames \cap Listed(zip_files[i]) # {}
    /\ scan_result.total_videos
           < Cardinality(root_mp4) + SumCounts(zip_contents)
    /\ scan_result.total_videos = Cardinality(scan_result.video_files)

====
